---------------------------- MODULE Spec2Model ----------------------------
(***************************************************************************)
(* Bounty lifecycle of src/server.js: the bounties and bounty_claims       *)
(* tables with their two triggers, the webhook handlers                    *)
(* handleBountyCreation and handleBountyClaim, and the approve, amount     *)
(* update, delete and complete endpoints.                                  *)
(*                                                                         *)
(* Every request runs in one of the slots of Procs.  A slot advances by    *)
(* one database statement at a time (each `await client.query` is a        *)
(* suspension point of the handler), so the statements of two requests     *)
(* interleave freely under Spec.  Under SeqSpec a request is only started  *)
(* when no other request is in flight.                                     *)
(***************************************************************************)
EXTENDS Integers, Sequences, FiniteSets, TLC

\* ------------------------------------------------------------- bounds
\* Number of requests started over a run.
MaxRequests == 2
\* Number of values drawn from the bounties id sequence over a run.
MaxBounties == 2
\* Largest amount a command or an amount update carries.
MaxAmount == 2

\* ------------------------------------------------------------- universe
Procs == {1, 2}
NULL == 0

\* users table: github_id of the rows, and the rows with a solana_address.
Users == {1, 2, 3, 4}
Registered == {1, 2, 3}
HasAddress == {1, 2}

Issues == {42, 43}
PullRequests == {7}

VARIABLES
    bounties,       \* rows of table bounties
    bounties_seq,   \* last value of the bounties id sequence (SERIAL)
    bounty_claims,  \* rows of table bounty_claims
    bounty_claims_seq, \* last value of the bounty_claims id sequence (SERIAL)
    req,            \* the request of each slot: its handler, position and locals
    started         \* number of requests started

vars == <<bounties, bounties_seq, bounty_claims, bounty_claims_seq, req, started>>
db == <<bounties, bounties_seq, bounty_claims, bounty_claims_seq>>

\* ------------------------------------------------------------- schema
\* Columns of bounty_claims as CREATE TABLE declares them.
bounty_claims_columns == {"id", "bounty_id", "user_id", "claimed_at", "pull_request"}
\* Columns named by the INSERT of handleBountyClaim.
claim_insert_columns == {"bounty_id", "user_id", "pull_request_number"}
\* Columns of bounty_claims (and fields of the new row) the claims trigger reads.
claim_trigger_columns == {"id", "bounty_id", "pull_request_number"}

BountyRow(id, issue, amount, status, creator, claimed) ==
    [id |-> id, issue_id |-> issue, amount |-> amount, status |-> status,
     creator_id |-> creator, claimed_by |-> claimed]

ClaimRow(id, bounty, user, pr) ==
    [id |-> id, bounty_id |-> bounty, user_id |-> user, pull_request |-> pr]

\* check_unique_open_bounty without the status filter on the existing rows.
check_unique_open_bounty_any_status(NEWROW, rows) ==
    /\ NEWROW.status = "open"
    /\ \E b \in rows : /\ b.issue_id = NEWROW.issue_id
                       /\ b.id # NEWROW.id

\* Trigger function check_unique_open_bounty: TRUE when it raises.
check_unique_open_bounty(NEWROW, rows) ==
    /\ NEWROW.status = "open"
    /\ \E b \in rows : /\ b.issue_id = NEWROW.issue_id
                       /\ b.id # NEWROW.id
                       /\ b.status = "open"

\* Trigger function check_unique_claim_on_open_bounty: TRUE when it raises.
check_unique_claim_on_open_bounty(NEWROW, brows, crows) ==
    /\ \E b \in brows : b.id = NEWROW.bounty_id /\ b.status = "open"
    /\ \E c \in crows :
          /\ c.pull_request = NEWROW.pull_request
          /\ \E b \in brows : b.id = c.bounty_id /\ b.status = "open"
          /\ c.id # NEWROW.id

\* SQLSTATE of a statement that names a column the table does not have.
UndefinedColumn == "42703"
\* SQLSTATE of RAISE EXCEPTION in a trigger function.
RaiseException == "P0001"
\* SQLSTATE of a foreign-key violation.
ForeignKeyViolation == "23503"
\* SQLSTATE handleBountyClaim looks for.
UniqueViolation == "23505"

\* An INSERT INTO bounty_claims that names the table's columns and runs no
\* trigger.
InsertBountyClaimUnchecked(NEWROW, brows, crows) ==
    IF ~(\E b \in brows : b.id = NEWROW.bounty_id) THEN ForeignKeyViolation
    ELSE IF NEWROW.user_id \notin Registered THEN ForeignKeyViolation
    ELSE ""

\* INSERT INTO bounty_claims (bounty_id, user_id, pull_request_number):
\* the SQLSTATE it fails with ("" when the row is inserted).
InsertBountyClaimError(NEWROW, brows, crows) ==
    IF ~(claim_insert_columns \subseteq bounty_claims_columns) THEN UndefinedColumn
    ELSE IF ~(claim_trigger_columns \subseteq bounty_claims_columns) THEN UndefinedColumn
    ELSE IF check_unique_claim_on_open_bounty(NEWROW, brows, crows) THEN RaiseException
    ELSE IF ~(\E b \in brows : b.id = NEWROW.bounty_id) THEN ForeignKeyViolation
    ELSE IF NEWROW.user_id \notin Registered THEN ForeignKeyViolation
    ELSE ""

\* ------------------------------------------------------------- command text
\* A text is a sequence of tokens separated by whitespace.  A token is a
\* run of decimal digits (digits, NoDigits when it starts with none)
\* followed by the rest of the token (word): "2" is Num(2), "abc" is
\* Word("abc"), "2abc" is Tok(2, "abc").
NoDigits == -1
Tok(digits, word) == [digits |-> digits, word |-> word]
Word(w) == Tok(NoDigits, w)
Num(n) == Tok(n, "")

CreateCommand == "/create-bounty"
ClaimCommand == "/claim-bounty"

\* The i flag of the two regular expressions.
toLowerCase(w) ==
    CASE w = "/Create-Bounty" -> "/create-bounty"
      [] w = "/Claim-Bounty" -> "/claim-bounty"
      [] OTHER -> w

\* text.match(/\/create-bounty\s+(\d+)/i) and parseInt(match[1]), likewise
\* for /claim-bounty: the digits that follow the first occurrence of the
\* command, in any case, that is followed by whitespace and a digit; NULL
\* when there is none.  The expression does not look at what follows the
\* digits.
RECURSIVE match(_, _, _)
match(text, command, i) ==
    IF i >= Len(text) THEN NULL
    ELSE IF /\ toLowerCase(text[i].word) = command
            /\ text[i + 1].digits # NoDigits
         THEN text[i + 1].digits
         ELSE match(text, command, i + 1)

\* comment.startsWith(command)
startsWith(text, command) == Len(text) > 0 /\ text[1] = Word(command)

\* body && body.includes(command)
includes(text, command) == \E i \in 1..Len(text) : text[i].word = command

\* ------------------------------------------------------------- webhook events
\* The fields of a webhook the endpoint and the two handlers read: the
\* x-github-event header with payload.action (kind), whether payload.issue
\* has a pull_request member (on_pr), the body of the comment, issue or pull
\* request (text), payload.sender.id, payload.issue.id, the number of the
\* pull request (pr: payload.pull_request.number, or payload.issue.number
\* of a comment on a pull request), payload.pull_request.changed_files, and
\* whether the x-hub-signature-256 header matches the body under the shared
\* secret.
Event(kind, on_pr, text, sender, issue, pr, changed_files, signature) ==
    [kind |-> kind, on_pr |-> on_pr, text |-> text, sender |-> sender,
     issue |-> issue, pr |-> pr, changed_files |-> changed_files,
     signature |-> signature]

NoEvent == Event("none", FALSE, <<>>, NULL, NULL, NULL, 0, "match")

IssueComment(issue, sender, text, signature) ==
    Event("issue_comment.created", FALSE, text, sender, issue, NULL, 0, signature)

PullRequestComment(pr, sender, text, signature) ==
    Event("issue_comment.created", TRUE, text, sender, NULL, pr, 0, signature)

IssueOpened(issue, sender, text, signature) ==
    Event("issues.opened", FALSE, text, sender, issue, NULL, 0, signature)

PullRequestOpened(pr, sender, text, changed_files, signature) ==
    Event("pull_request.opened", FALSE, text, sender, NULL, pr, changed_files, signature)

InstallationDeleted(sender, signature) ==
    Event("installation.deleted", FALSE, <<>>, sender, NULL, NULL, 0, signature)

\* ------------------------------------------------------------- requests
\* A request: kind names its handler and pc the statement it runs next.
\* user is the sender or caller, bounty the bounty id it names (for a
\* creation, the id drawn for the new row), issue the issue id, amount the
\* amount it carries (for a claim, changed_files of the pull request), arg
\* the claimant id of an approval or the pull-request number of a claim,
\* flag whether a claim came as a comment, snap what it has read so far,
\* hook the event of a webhook that entered at the endpoint.
\* http, outcome, comments, calls (the number of calls of the notification
\* client), nfail (one of them failed) and resp are what it has answered.
IdleReq ==
    [kind |-> "none", pc |-> "idle", user |-> NULL, bounty |-> NULL,
     issue |-> NULL, amount |-> 0, arg |-> NULL, flag |-> FALSE,
     snap |-> <<>>, hook |-> NoEvent, http |-> 0, outcome |-> "",
     comments |-> <<>>, calls |-> 0, nfail |-> FALSE, resp |-> <<>>]

\* A request may be started in a slot that holds no request in flight.
Free(p) == req[p].pc \in {"idle", "done"}

NewReq(kind, pc, user) ==
    [IdleReq EXCEPT !.kind = kind, !.pc = pc, !.user = user]

\* One call of the notification client: on success the comment is posted,
\* on failure the call throws.
Post(r, ok, body) ==
    IF ok THEN [r EXCEPT !.comments = Append(@, body), !.calls = @ + 1]
    ELSE [r EXCEPT !.nfail = TRUE, !.calls = @ + 1]

\* The handler returns: the slot keeps the response and the comments posted,
\* the handler's locals are gone.
Finish(r, http, outcome) ==
    [IdleReq EXCEPT !.kind = r.kind, !.pc = "done", !.http = http,
                    !.outcome = outcome, !.comments = r.comments,
                    !.calls = r.calls, !.nfail = r.nfail, !.resp = r.resp]

\* A request enters the first free slot; r is the request after the
\* synchronous code that runs before its first database statement.  The
\* responses of requests that ended earlier are dropped.
Arrive(p, r) ==
    /\ Free(p)
    /\ \A q \in Procs : q < p => ~Free(q)
    /\ started < MaxRequests
    /\ started' = started + 1
    /\ req' = [q \in Procs |->
                 IF q = p THEN r ELSE IF Free(q) THEN IdleReq ELSE req[q]]

Begin(p, r) == Arrive(p, r) /\ UNCHANGED db

\* The request a handler works on, with the payload it was called with
\* while it runs.
InFlight(r, payload) ==
    IF r.pc = "done" THEN r ELSE [r EXCEPT !.hook = payload]

\* ------------------------------------------------------------- initial store
\* The tables are created IF NOT EXISTS: the process starts over the store
\* as it is.  Either it is empty, or it holds one open bounty on issue 42
\* with two claims on it.
SeedBounties == {BountyRow(1, 42, 1, "open", 1, NULL)}
SeedClaims == {ClaimRow(1, 1, 2, 7), ClaimRow(2, 1, 3, 8)}

Init ==
    /\ \/ /\ bounties = {}
          /\ bounties_seq = 0
          /\ bounty_claims = {}
          /\ bounty_claims_seq = 0
       \/ /\ bounties = SeedBounties
          /\ bounties_seq = 1
          /\ bounty_claims = SeedClaims
          /\ bounty_claims_seq = 2
    /\ req = [p \in Procs |-> IdleReq]
    /\ started = 0

\* ------------------------------------------------------------- handleBountyCreation
\* The webhook reaches handleBountyCreation with the amount its text carries
\* (0 when the text carries none: `!amount`).
CreateEntry(issue, sender, amount) ==
    LET r == [NewReq("create", "precheck", sender) EXCEPT
                 !.issue = issue, !.amount = amount]
    IN  IF amount = 0 THEN Finish(r, 200, "no_command") ELSE r

CreateStart(p, issue, sender, amount) ==
    Begin(p, CreateEntry(issue, sender, amount))

\* handleBountyCreation up to its first database statement: the amount is
\* parsed from the comment body, or from the issue body when the payload
\* has no comment.
handleBountyCreation(payload) ==
    InFlight(CreateEntry(payload.issue, payload.sender,
                         match(payload.text, CreateCommand, 1)), payload)

\* CreatePrecheck with the result of the query ignored.
CreatePrecheckIgnored(p, ok) ==
    /\ req[p].kind = "create" /\ req[p].pc = "precheck"
    /\ req' = [req EXCEPT ![p].pc = "trigger"]
    /\ UNCHANGED <<db, started>>

\* SELECT * FROM bounties WHERE issue_id = $1 AND status = 'open', and the
\* duplicate notice when a row is found.
CreatePrecheck(p, ok) ==
    /\ req[p].kind = "create" /\ req[p].pc = "precheck"
    /\ LET r == req[p]
           found == \E b \in bounties : b.issue_id = r.issue /\ b.status = "open"
       IN  req' = [req EXCEPT ![p] =
                IF found
                THEN IF ok THEN Finish(Post(r, TRUE, "duplicate_open_bounty"), 200, "duplicate")
                     ELSE Finish(Post(r, FALSE, "duplicate_open_bounty"), 500, "error")
                ELSE [r EXCEPT !.pc = "trigger"]]
    /\ UNCHANGED <<db, started>>

\* CreateInsertTrigger with a trigger that counts the bounties of the issue
\* in any status.
CreateInsertTriggerAnyStatus(p) ==
    /\ req[p].kind = "create" /\ req[p].pc = "trigger"
    /\ bounties_seq < MaxBounties
    /\ bounties_seq' = bounties_seq + 1
    /\ LET r == req[p]
           NEWROW == BountyRow(bounties_seq + 1, r.issue, r.amount, "open", r.user, NULL)
       IN  req' = [req EXCEPT ![p] =
                IF check_unique_open_bounty_any_status(NEWROW, bounties)
                THEN Finish(r, 500, "error")
                ELSE [r EXCEPT !.pc = "insert", !.bounty = NEWROW.id]]
    /\ UNCHANGED <<bounties, bounty_claims, bounty_claims_seq, started>>

\* INSERT INTO bounties, first half: the id is drawn from the sequence and
\* the BEFORE INSERT trigger runs its query on the rows committed so far.
\* A row another statement inserts after this point is not seen by it.
CreateInsertTrigger(p) ==
    /\ req[p].kind = "create" /\ req[p].pc = "trigger"
    /\ bounties_seq < MaxBounties
    /\ bounties_seq' = bounties_seq + 1
    /\ LET r == req[p]
           NEWROW == BountyRow(bounties_seq + 1, r.issue, r.amount, "open", r.user, NULL)
       IN  req' = [req EXCEPT ![p] =
                IF check_unique_open_bounty(NEWROW, bounties)
                THEN Finish(r, 500, "error")
                ELSE [r EXCEPT !.pc = "insert", !.bounty = NEWROW.id]]
    /\ UNCHANGED <<bounties, bounty_claims, bounty_claims_seq, started>>

\* INSERT INTO bounties, second half: the foreign key on creator_id is
\* checked, the row is written and committed; then the congratulation.
CreateInsertCommit(p, ok) ==
    /\ req[p].kind = "create" /\ req[p].pc = "insert"
    /\ LET r == req[p]
           NEWROW == BountyRow(r.bounty, r.issue, r.amount, "open", r.user, NULL)
       IN  IF r.user \notin Registered
           THEN /\ req' = [req EXCEPT ![p] = Finish(r, 500, "error")]
                /\ UNCHANGED bounties
           ELSE /\ bounties' = bounties \cup {NEWROW}
                /\ req' = [req EXCEPT ![p] =
                      IF ok THEN Finish(Post(r, TRUE, "congratulations"), 200, "created")
                      ELSE Finish(Post(r, FALSE, "congratulations"), 500, "error")]
    /\ UNCHANGED <<bounties_seq, bounty_claims, bounty_claims_seq, started>>

\* ------------------------------------------------------------- handleBountyClaim
\* createComment of handleBountyClaim.  On a comment event it posts an issue
\* comment.  On a pull-request event it builds a review comment whose path
\* is changed_files[0].filename when changed_files > 0: changed_files is a
\* number, so that expression throws before anything is posted.
\* The result is <<request, thrown>>.
createComment(r, ok, body) ==
    IF r.flag THEN <<Post(r, ok, body), ~ok>>
    ELSE IF r.amount > 0 THEN <<r, TRUE>>
    ELSE <<Post(r, ok, body), ~ok>>

\* Every throw inside the try block of handleBountyClaim is caught; the
\* catch posts a notice for SQLSTATE 23505 and logs anything else.
\* The handler returns normally either way.
ClaimReturn(r, ok, body, outcome) ==
    Finish(createComment(r, ok, body)[1], 200, outcome)

\* Event kinds that reach handleBountyClaim: a comment on a pull request
\* (flag), or a pull request opened with changed_files files (amount).
ClaimEntry(bountyId, sender, pr, isPRComment, changed_files, ok) ==
    LET r == [NewReq("claim", "lookup", sender) EXCEPT
                 !.bounty = bountyId, !.arg = pr, !.flag = isPRComment,
                 !.amount = changed_files]
    IN  IF bountyId = 0 THEN Finish(r, 200, "no_command")
        ELSE IF sender \notin Registered
             THEN ClaimReturn(r, ok, "join_first", "not_registered")
             ELSE r

ClaimStart(p, bountyId, sender, pr, isPRComment, changed_files, ok) ==
    Begin(p, ClaimEntry(bountyId, sender, pr, isPRComment, changed_files, ok))

\* handleBountyClaim up to its query on bounties: the bounty id is parsed
\* from the comment body (isPRComment) or from the pull-request body.
handleBountyClaim(payload, ok) ==
    InFlight(ClaimEntry(match(payload.text, ClaimCommand, 1), payload.sender,
                        payload.pr, payload.kind = "issue_comment.created",
                        payload.changed_files, ok), payload)

\* SELECT * FROM bounties WHERE id = $1 AND status = 'open', the creator
\* check, and the read of payload.pull_request.number, which throws on a
\* comment event (the payload has no pull_request).
ClaimLookup(p, ok) ==
    /\ req[p].kind = "claim" /\ req[p].pc = "lookup"
    /\ LET r == req[p]
           rows == {b \in bounties : b.id = r.bounty /\ b.status = "open"}
       IN  req' = [req EXCEPT ![p] =
                IF rows = {} THEN ClaimReturn(r, ok, "no_open_bounty", "not_found")
                ELSE IF \E b \in rows : b.creator_id = r.user
                     THEN ClaimReturn(r, ok, "own_bounty", "own_bounty")
                     ELSE IF r.flag THEN Finish(r, 200, "error_logged")
                          ELSE [r EXCEPT !.pc = "insert"]]
    /\ UNCHANGED <<db, started>>

\* INSERT INTO bounty_claims and the notice that follows it.
ClaimInsert(p, ok) ==
    /\ req[p].kind = "claim" /\ req[p].pc = "insert"
    /\ LET r == req[p]
           NEWROW == ClaimRow(bounty_claims_seq + 1, r.bounty, r.user, r.arg)
           err == InsertBountyClaimError(NEWROW, bounties, bounty_claims)
       IN  IF err = ""
           THEN /\ bounty_claims' = bounty_claims \cup {NEWROW}
                /\ bounty_claims_seq' = bounty_claims_seq + 1
                /\ req' = [req EXCEPT ![p] =
                      LET c == createComment(r, ok, "pending_review")
                      IN  Finish(c[1], 200, IF c[2] THEN "error_logged" ELSE "claimed")]
           ELSE /\ UNCHANGED <<bounty_claims, bounty_claims_seq>>
                /\ req' = [req EXCEPT ![p] =
                      IF err = UniqueViolation
                      THEN LET c == createComment(r, ok, "already_claimed")
                           IN  Finish(c[1], IF c[2] THEN 500 ELSE 200,
                                      IF c[2] THEN "error" ELSE "already_claimed")
                      ELSE Finish(r, 200, "insert_rejected")]
    /\ UNCHANGED <<bounties, bounties_seq, started>>

\* ------------------------------------------------------------- POST /api/github/webhooks
\* The endpoint receives an event and awaits gitHubApp.webhooks.verify.
Webhook(p, payload) ==
    Begin(p, [NewReq("webhook", "verify", payload.sender) EXCEPT !.hook = payload])

\* An event that reaches neither handler.  On installation.deleted the
\* sender's github_installation_id is set to NULL first; no statement of
\* the handlers modelled here reads that column.
Acknowledge(r) ==
    Finish(r, 200, IF r.hook.kind = "installation.deleted" THEN "uninstalled"
                   ELSE "ignored")

\* The routing of an event to handleBountyCreation or handleBountyClaim.
Route(r, ok) ==
    LET payload == r.hook
    IN  IF payload.kind = "issue_comment.created"
        THEN IF payload.on_pr
             THEN IF startsWith(payload.text, ClaimCommand)
                  THEN handleBountyClaim(payload, ok) ELSE Acknowledge(r)
             ELSE IF startsWith(payload.text, CreateCommand)
                  THEN handleBountyCreation(payload) ELSE Acknowledge(r)
        ELSE IF payload.kind = "issues.opened"
        THEN IF includes(payload.text, CreateCommand)
             THEN handleBountyCreation(payload) ELSE Acknowledge(r)
        ELSE IF payload.kind = "pull_request.opened"
        THEN IF includes(payload.text, ClaimCommand)
             THEN handleBountyClaim(payload, ok) ELSE Acknowledge(r)
        ELSE Acknowledge(r)

\* verify has settled.  Its result is not looked at: the event is routed
\* unless verify threw, and then the endpoint answers 500.  Whether verify
\* throws or returns false on a signature that does not match is the
\* library's choice (thrown).
Dispatch(p, thrown, ok) ==
    /\ req[p].kind = "webhook" /\ req[p].pc = "verify"
    /\ req' = [req EXCEPT ![p] =
          IF req[p].hook.signature # "match" /\ thrown
          THEN Finish(req[p], 500, "error")
          ELSE Route(req[p], ok)]
    /\ UNCHANGED <<db, started>>

\* ------------------------------------------------------------- authenticateUser
\* The cookie names a row of users, or the request ends with 401.
Authenticated(caller) == caller \in Registered

authenticateUser(r) ==
    IF Authenticated(r.user) THEN r ELSE Finish(r, 401, "not_authenticated")

\* solana_address of a users row.
solana_address(u) == IF u \in HasAddress THEN 1000 + u ELSE NULL

\* ------------------------------------------------------------- POST /api/approve-bounty-verify
ApproveStart(p, caller, bountyId, claimantId) ==
    Begin(p, authenticateUser([NewReq("approve", "readBounty", caller) EXCEPT
                                  !.bounty = bountyId, !.arg = claimantId]))

\* 1. SELECT * FROM bounties WHERE id = $1
ApproveReadBounty(p) ==
    /\ req[p].kind = "approve" /\ req[p].pc = "readBounty"
    /\ LET r == req[p]
           rows == {b \in bounties : b.id = r.bounty}
       IN  req' = [req EXCEPT ![p] =
                IF rows = {} THEN Finish(r, 404, "bounty_not_found")
                ELSE LET bounty == CHOOSE b \in rows : TRUE
                     IN  [r EXCEPT !.pc = "readClaim",
                                   !.snap = <<bounty.creator_id, bounty.amount>>]]
    /\ UNCHANGED <<db, started>>

\* ApproveReadClaim without the owner check.
ApproveReadClaimAnyCaller(p) ==
    /\ req[p].kind = "approve" /\ req[p].pc = "readClaim"
    /\ LET r == req[p]
           claimRows == {c \in bounty_claims : c.bounty_id = r.bounty /\ c.user_id = r.arg}
       IN  req' = [req EXCEPT ![p] =
                IF claimRows = {} THEN Finish(r, 400, "not_claimed")
                ELSE IF r.snap[1] \notin Registered \/ r.arg \notin Registered
                     THEN Finish(r, 400, "user_not_found")
                ELSE IF solana_address(r.snap[1]) = NULL \/ solana_address(r.arg) = NULL
                     THEN Finish(r, 400, "no_address")
                ELSE [r EXCEPT !.pc = "write"]]
    /\ UNCHANGED <<db, started>>

\* 2. SELECT * FROM bounty_claims WHERE bounty_id = $1 AND user_id = $2,
\* 3. the owner check, 4. the two users rows, 5. their addresses.
ApproveReadClaim(p) ==
    /\ req[p].kind = "approve" /\ req[p].pc = "readClaim"
    /\ LET r == req[p]
           claimRows == {c \in bounty_claims : c.bounty_id = r.bounty /\ c.user_id = r.arg}
       IN  req' = [req EXCEPT ![p] =
                IF claimRows = {} THEN Finish(r, 400, "not_claimed")
                ELSE IF r.snap[1] # r.user THEN Finish(r, 401, "unauthorized")
                ELSE IF r.snap[1] \notin Registered \/ r.arg \notin Registered
                     THEN Finish(r, 400, "user_not_found")
                ELSE IF solana_address(r.snap[1]) = NULL \/ solana_address(r.arg) = NULL
                     THEN Finish(r, 400, "no_address")
                ELSE [r EXCEPT !.pc = "write"]]
    /\ UNCHANGED <<db, started>>

\* ApprovedRow with the approving creator recorded in claimed_by.
ApprovedRowByCaller(b, claimantId) ==
    [b EXCEPT !.status = "payment pending", !.claimed_by = b.creator_id]

ApprovedRow(b, claimantId) ==
    [b EXCEPT !.status = "payment pending", !.claimed_by = claimantId]

\* ApproveWrite with the caller written to claimed_by.
ApproveWriteForCaller(p) ==
    /\ req[p].kind = "approve" /\ req[p].pc = "write"
    /\ LET r == req[p]
       IN  /\ bounties' = {IF b.id = r.bounty THEN ApprovedRow(b, r.user) ELSE b :
                              b \in bounties}
           /\ req' = [req EXCEPT ![p] =
                 Finish([r EXCEPT !.resp = <<solana_address(r.snap[1]),
                                             solana_address(r.arg), r.snap[2]>>],
                        200, "approved")]
    /\ UNCHANGED <<bounties_seq, bounty_claims, bounty_claims_seq, started>>

\* 6. UPDATE bounties SET status = 'payment pending', claimed_by = $2
\* WHERE id = $3, and the response.
ApproveWrite(p) ==
    /\ req[p].kind = "approve" /\ req[p].pc = "write"
    /\ LET r == req[p]
       IN  /\ bounties' = {IF b.id = r.bounty THEN ApprovedRow(b, r.arg) ELSE b :
                              b \in bounties}
           /\ req' = [req EXCEPT ![p] =
                 Finish([r EXCEPT !.resp = <<solana_address(r.snap[1]),
                                             solana_address(r.arg), r.snap[2]>>],
                        200, "approved")]
    /\ UNCHANGED <<bounties_seq, bounty_claims, bounty_claims_seq, started>>

\* ------------------------------------------------------------- PUT /api/bounty/:id
UpdateStart(p, caller, bountyId, amount) ==
    Begin(p, authenticateUser([NewReq("update", "readBounty", caller) EXCEPT
                                  !.bounty = bountyId, !.amount = amount]))

\* SELECT * FROM bounties WHERE id = $1 AND creator_id = $2
UpdateReadBounty(p) ==
    /\ req[p].kind = "update" /\ req[p].pc = "readBounty"
    /\ LET r == req[p]
           rows == {b \in bounties : b.id = r.bounty /\ b.creator_id = r.user}
       IN  req' = [req EXCEPT ![p] =
                IF rows = {} THEN Finish(r, 404, "bounty_not_found")
                ELSE [r EXCEPT !.pc = "write"]]
    /\ UNCHANGED <<db, started>>

\* UpdateWrite with the status set back to open along with the amount.
UpdateWriteReopens(p) ==
    /\ req[p].kind = "update" /\ req[p].pc = "write"
    /\ LET r == req[p]
           Upd(b) == [b EXCEPT !.amount = r.amount, !.status = "open"]
           raised == \E b \in bounties :
                        b.id = r.bounty /\ check_unique_open_bounty(Upd(b), bounties)
       IN  IF raised
           THEN /\ req' = [req EXCEPT ![p] = Finish(r, 500, "error")]
                /\ UNCHANGED bounties
           ELSE /\ bounties' = {IF b.id = r.bounty THEN Upd(b) ELSE b : b \in bounties}
                /\ req' = [req EXCEPT ![p].pc = "notify"]
    /\ UNCHANGED <<bounties_seq, bounty_claims, bounty_claims_seq, started>>

\* UPDATE bounties SET amount = $1 WHERE id = $2
UpdateWrite(p) ==
    /\ req[p].kind = "update" /\ req[p].pc = "write"
    /\ LET r == req[p]
           Upd(b) == [b EXCEPT !.amount = r.amount]
           raised == \E b \in bounties :
                        b.id = r.bounty /\ check_unique_open_bounty(Upd(b), bounties)
       IN  IF raised
           THEN /\ req' = [req EXCEPT ![p] = Finish(r, 500, "error")]
                /\ UNCHANGED bounties
           ELSE /\ bounties' = {IF b.id = r.bounty THEN Upd(b) ELSE b : b \in bounties}
                /\ req' = [req EXCEPT ![p].pc = "notify"]
    /\ UNCHANGED <<bounties_seq, bounty_claims, bounty_claims_seq, started>>

\* n comments of one kind.
Repeat(body, n) == [i \in 1..n |-> body]

\* SELECT pull_request FROM bounty_claims WHERE bounty_id = $1, the comment
\* on the issue (its failure is caught) and the review comments on the pull
\* requests: posted of them succeed, and if that is not all of them the
\* next one throws and the request fails.
UpdateNotify(p, issueOk) ==
    /\ req[p].kind = "update" /\ req[p].pc = "notify"
    /\ LET r == req[p]
           pullRequestNumbers == {c \in bounty_claims : c.bounty_id = r.bounty}
           n == Cardinality(pullRequestNumbers)
           r1 == Post(r, issueOk, "amount_updated")
           r2(posted) ==
               [r1 EXCEPT !.comments = @ \o Repeat("amount_updated_pr", posted),
                          !.calls = @ + (IF posted < n THEN posted + 1 ELSE n),
                          !.nfail = @ \/ posted < n]
       IN  \E posted \in 0..n :
             req' = [req EXCEPT ![p] =
                 IF posted < n THEN Finish(r2(posted), 500, "error")
                 ELSE Finish(r2(posted), 200, "updated")]
    /\ UNCHANGED <<db, started>>

\* ------------------------------------------------------------- DELETE /api/bounty/:id
DeleteStart(p, caller, bountyId) ==
    Begin(p, authenticateUser([NewReq("delete", "readBounty", caller) EXCEPT
                                  !.bounty = bountyId]))

\* BEGIN; SELECT * FROM bounties WHERE id = $1 AND creator_id = $2
DeleteReadBounty(p) ==
    /\ req[p].kind = "delete" /\ req[p].pc = "readBounty"
    /\ LET r == req[p]
           rows == {b \in bounties : b.id = r.bounty /\ b.creator_id = r.user}
       IN  req' = [req EXCEPT ![p] =
                IF rows = {} THEN Finish(r, 404, "bounty_not_found")
                ELSE [r EXCEPT !.pc = "readClaimants"]]
    /\ UNCHANGED <<db, started>>

\* SELECT DISTINCT user_id FROM bounty_claims WHERE bounty_id = $1
DeleteReadClaimants(p) ==
    /\ req[p].kind = "delete" /\ req[p].pc = "readClaimants"
    /\ req' = [req EXCEPT ![p].pc = "commit",
                          ![p].snap = <<{c.user_id : c \in
                               {c \in bounty_claims : c.bounty_id = req[p].bounty}}>>]
    /\ UNCHANGED <<db, started>>

\* DeleteCommit without the DELETE FROM bounty_claims.
DeleteCommitBountyOnly(p) ==
    /\ req[p].kind = "delete" /\ req[p].pc = "commit"
    /\ bounties' = {b \in bounties : b.id # req[p].bounty}
    /\ req' = [req EXCEPT ![p] = Finish(req[p], 200, "deleted")]
    /\ UNCHANGED <<bounty_claims, bounties_seq, bounty_claims_seq, started>>

\* The loop over the claimants with the try and catch around each call
\* taken away: the first call that throws ends the loop and the request.
NotifyClaimantsUntilFailure(r, claimants, failing) ==
    IF failing = {}
    THEN Finish([r EXCEPT !.comments = Repeat("bounty_deleted", Cardinality(claimants)),
                          !.calls = Cardinality(claimants)],
                200, "deleted")
    ELSE Finish([r EXCEPT !.calls = 1, !.nfail = TRUE], 500, "error")

\* The loop over the claimants read before the deletion: one call each;
\* the calls for the claimants in failing throw, are caught and logged.
NotifyClaimants(r, claimants, failing) ==
    Finish([r EXCEPT
              !.comments = Repeat("bounty_deleted", Cardinality(claimants \ failing)),
              !.calls = Cardinality(claimants),
              !.nfail = failing # {}],
           200, "deleted")

\* DELETE FROM bounty_claims WHERE bounty_id = $1; DELETE FROM bounties
\* WHERE id = $1; COMMIT: the two deletions become visible together.  Then
\* one notice per claimant read before; the calls for the claimants in
\* failing throw and are caught.
DeleteCommit(p) ==
    /\ req[p].kind = "delete" /\ req[p].pc = "commit"
    /\ LET r == req[p]
           claimants == r.snap[1]
       IN  /\ bounty_claims' = {c \in bounty_claims : c.bounty_id # r.bounty}
           /\ bounties' = {b \in bounties : b.id # r.bounty}
           /\ \E failing \in SUBSET claimants :
                req' = [req EXCEPT ![p] = NotifyClaimants(r, claimants, failing)]
    /\ UNCHANGED <<bounties_seq, bounty_claims_seq, started>>

\* ------------------------------------------------------------- POST /api/complete-bounty
CompletedRow(b) == [b EXCEPT !.status = "completed"]

\* UPDATE bounties SET status = 'completed' WHERE id = $2
Complete(p, caller, bountyId) ==
    /\ LET r == authenticateUser([NewReq("complete", "write", caller) EXCEPT
                                     !.bounty = bountyId])
       IN  IF r.pc = "done"
           THEN /\ Arrive(p, r)
                /\ UNCHANGED bounties
           ELSE /\ Arrive(p, Finish(r, 200, "completed"))
                /\ bounties' = {IF b.id = bountyId THEN CompletedRow(b) ELSE b :
                                   b \in bounties}
    /\ UNCHANGED <<bounties_seq, bounty_claims, bounty_claims_seq>>

\* ------------------------------------------------------------- inputs
\* The values the requests of a run carry.  User 1 is the maintainer who
\* creates bounties, 2 and 3 are contributors, 4 has no row in users.
BountyIds == 1..MaxBounties
CreateAmounts == 0..MaxAmount
\* The body of an amount update is not validated: the amounts sent are 0
\* and a positive one.
UpdateAmounts == {0, MaxAmount}
CreateSenders == {1, 4}
ClaimSenders == {1, 2, 4}
ApiCallers == {1, 2, 4}
Claimants == {2, 3}
\* A claim event: a comment on a pull request, or a pull request opened
\* with 0 or 1 changed files.
ClaimEvents == {<<TRUE, 0>>, <<FALSE, 0>>, <<FALSE, 1>>}


\* The texts of the events: the command with each argument the handlers
\* tell apart (a number, none, a word, a number with a suffix), the command
\* in another case or after other words, and the other command.
CreateTexts ==
    {<<Word(CreateCommand), Num(a)>> : a \in CreateAmounts}
    \cup {<<>>, <<Word(CreateCommand)>>, <<Word(CreateCommand), Word("abc")>>,
          <<Word(CreateCommand), Tok(MaxAmount, "abc")>>,
          <<Word("/Create-Bounty"), Num(1)>>,
          <<Word("fix"), Word(CreateCommand), Num(1)>>,
          <<Word(ClaimCommand), Num(1)>>}

ClaimTexts ==
    {<<Word(ClaimCommand), Num(b)>> : b \in 0..MaxBounties}
    \cup {<<Word(ClaimCommand)>>, <<Word(ClaimCommand), Word("abc")>>,
          <<Word("/Claim-Bounty"), Num(1)>>,
          <<Word("fix"), Word(ClaimCommand), Num(1)>>,
          <<Word(CreateCommand), Num(1)>>}

Signatures == {"match", "mismatch"}

\* The events a run may receive.
Events ==
    {IssueComment(i, u, t, s) :
        i \in Issues, u \in CreateSenders, t \in CreateTexts, s \in Signatures}
    \cup {IssueOpened(i, u, t, s) :
        i \in Issues, u \in CreateSenders, t \in CreateTexts, s \in Signatures}
    \cup {PullRequestComment(pr, u, t, s) :
        pr \in PullRequests, u \in ClaimSenders, t \in ClaimTexts, s \in Signatures}
    \cup {PullRequestOpened(pr, u, t, e[2], s) :
        pr \in PullRequests, u \in ClaimSenders, t \in ClaimTexts,
        e \in {e \in ClaimEvents : ~e[1]}, s \in Signatures}
    \cup {InstallationDeleted(u, s) : u \in CreateSenders, s \in Signatures}

\* ------------------------------------------------------------- next-state relation
\* The requests that may arrive, each with its inputs.
CreateRequest(p) ==
    \E i \in Issues, u \in CreateSenders, a \in CreateAmounts : CreateStart(p, i, u, a)

ClaimRequest(p) ==
    \E b \in 0..MaxBounties, u \in ClaimSenders, pr \in PullRequests, e \in ClaimEvents :
        \E ok \in (IF u \in Registered \/ b = 0 THEN {TRUE} ELSE BOOLEAN) :
            ClaimStart(p, b, u, pr, e[1], e[2], ok)

ApproveRequest(p) ==
    \E u \in ApiCallers, b \in BountyIds, c \in Claimants : ApproveStart(p, u, b, c)

UpdateRequest(p) ==
    \E u \in ApiCallers, b \in BountyIds, a \in UpdateAmounts : UpdateStart(p, u, b, a)

DeleteRequest(p) ==
    \E u \in ApiCallers, b \in BountyIds : DeleteStart(p, u, b)

CompleteRequest(p) ==
    \E u \in ApiCallers, b \in BountyIds : Complete(p, u, b)

WebhookRequest(p) ==
    \E payload \in Events : Webhook(p, payload)

\* thrown is a choice only when the signature does not match, ok only when
\* the routed handler calls the notification client before its first query.
DispatchStep(p) ==
    \E thrown \in (IF req[p].hook.signature = "match" THEN {FALSE} ELSE BOOLEAN),
       ok \in (IF req[p].hook.sender \in Registered THEN {TRUE} ELSE BOOLEAN) :
        Dispatch(p, thrown, ok)

Next ==
    \E p \in Procs :
        \/ CreateRequest(p)
        \/ \E ok \in BOOLEAN : CreatePrecheck(p, ok)
        \/ CreateInsertTrigger(p)
        \/ \E ok \in BOOLEAN : CreateInsertCommit(p, ok)
        \/ ClaimRequest(p)
        \/ \E ok \in BOOLEAN : ClaimLookup(p, ok)
        \/ \E ok \in BOOLEAN : ClaimInsert(p, ok)
        \/ ApproveRequest(p)
        \/ ApproveReadBounty(p)
        \/ ApproveReadClaim(p)
        \/ ApproveWrite(p)
        \/ UpdateRequest(p)
        \/ UpdateReadBounty(p)
        \/ UpdateWrite(p)
        \/ \E issueOk \in BOOLEAN : UpdateNotify(p, issueOk)
        \/ DeleteRequest(p)
        \/ DeleteReadBounty(p)
        \/ DeleteReadClaimants(p)
        \/ DeleteCommit(p)
        \/ CompleteRequest(p)

Spec == Init /\ [][Next]_vars

\* Requests one at a time: a slot moves only while every other slot is free.
\* Under Spec a webhook enters at the handler it is routed to, with its
\* signature verified and its command parsed (verify reads and writes
\* nothing the requests share); under SeqSpec it enters at the endpoint with
\* the event as it was sent.
Alone(p) == \A q \in Procs \ {p} : Free(q)

SeqNext ==
    \E p \in Procs :
        \/ Alone(p) /\ WebhookRequest(p)
        \/ Alone(p) /\ DispatchStep(p)
        \/ Alone(p) /\ \E ok \in BOOLEAN : CreatePrecheck(p, ok)
        \/ Alone(p) /\ CreateInsertTrigger(p)
        \/ Alone(p) /\ \E ok \in BOOLEAN : CreateInsertCommit(p, ok)
        \/ Alone(p) /\ \E ok \in BOOLEAN : ClaimLookup(p, ok)
        \/ Alone(p) /\ \E ok \in BOOLEAN : ClaimInsert(p, ok)
        \/ Alone(p) /\ ApproveRequest(p)
        \/ Alone(p) /\ ApproveReadBounty(p)
        \/ Alone(p) /\ ApproveReadClaim(p)
        \/ Alone(p) /\ ApproveWrite(p)
        \/ Alone(p) /\ UpdateRequest(p)
        \/ Alone(p) /\ UpdateReadBounty(p)
        \/ Alone(p) /\ UpdateWrite(p)
        \/ Alone(p) /\ \E issueOk \in BOOLEAN : UpdateNotify(p, issueOk)
        \/ Alone(p) /\ DeleteRequest(p)
        \/ Alone(p) /\ DeleteReadBounty(p)
        \/ Alone(p) /\ DeleteReadClaimants(p)
        \/ Alone(p) /\ DeleteCommit(p)
        \/ Alone(p) /\ CompleteRequest(p)

SeqSpec == Init /\ [][SeqNext]_vars

\* ------------------------------------------------------------- properties
\* The request in flight in slot p takes the step.
Moved(p) == ~Free(p) /\ req'[p] # req[p]

OpenOn(issue) == {b \in bounties : b.issue_id = issue /\ b.status = "open"}

ClaimsOn(bountyId, pr) ==
    {c \in bounty_claims : c.bounty_id = bountyId /\ c.pull_request = pr}

\* C1: under every interleaving of create-bounty requests, each a pre-check
\* query followed by an insert guarded by the trigger, every issue has at
\* most one bounty with status open in every reachable state.
C1_AtMostOneOpenBountyPerIssue ==
    \A i \in Issues : Cardinality(OpenOn(i)) <= 1

\* C2: under every interleaving of claim requests on the same (open bounty,
\* pull request) pair, at most one claim row of that pair exists in every
\* reachable state in which the bounty is open.
C2_AtMostOneClaimPerOpenBountyAndPR ==
    \A b \in bounties : b.status = "open" =>
        \A c1, c2 \in bounty_claims :
            (c1.bounty_id = b.id /\ c2.bounty_id = b.id
               /\ c1.pull_request = c2.pull_request) => c1 = c2

\* Two claim requests on the same pair of an open bounty that already has a
\* claim row for the pair: one has run its INSERT, the other is about to.
C2_Witness ==
    /\ req[1].kind = "claim" /\ req[1].pc = "done" /\ req[1].outcome = "insert_rejected"
    /\ req[2].kind = "claim" /\ req[2].pc = "insert"
    /\ OpenOn(42) # {}
    /\ \E b \in OpenOn(42) : b.id = req[2].bounty /\ ClaimsOn(b.id, req[2].arg) # {}

\* What a create request does, step by step, when the issue has no open
\* bounty: it passes the pre-check and the trigger, adds exactly one bounty
\* (that issue, amount A, status open, creator U, claimed_by unset), posts
\* one congratulation, and leaves every other bounty and every claim
\* unchanged.
CreateAddsOneOpenBounty(p) ==
    /\ (req[p].pc = "precheck" /\ OpenOn(req[p].issue) = {}) =>
          /\ req'[p].pc = "trigger"
          /\ bounties' = bounties /\ bounty_claims' = bounty_claims
    /\ req[p].pc = "trigger" =>
          /\ OpenOn(req[p].issue) = {}
          /\ req'[p].pc = "insert"
          /\ req'[p].amount > 0
          /\ bounties' = bounties /\ bounty_claims' = bounty_claims
    /\ (req[p].pc = "insert" /\ ~req'[p].nfail) =>
          /\ \E id \in BountyIds :
                /\ \A b \in bounties : b.id # id
                /\ bounties' = bounties \cup
                      {[id |-> id, issue_id |-> req[p].issue,
                        amount |-> req[p].amount, status |-> "open",
                        creator_id |-> req[p].user, claimed_by |-> NULL]}
          /\ bounty_claims' = bounty_claims
          /\ req'[p].pc = "done" /\ req'[p].http = 200
          /\ req'[p].comments = <<"congratulations">>

C4_DuplicateCreateIsRefused ==
    [][\A p \in Procs :
         (req[p].kind = "create" /\ req[p].pc = "precheck" /\ Moved(p)
            /\ OpenOn(req[p].issue) # {} /\ ~req'[p].nfail) =>
               /\ bounties' = bounties /\ bounty_claims' = bounty_claims
               /\ req'[p].pc = "done" /\ req'[p].http = 200
               /\ req'[p].comments = <<"duplicate_open_bounty">>
      ]_vars

\* A create request has ended with the duplicate notice while the open
\* bounty of its issue is still the only bounty.
C4_Witness ==
    \E p \in Procs :
        /\ req[p].kind = "create" /\ req[p].outcome = "duplicate"
        /\ req[p].http = 200
        /\ req[p].comments = <<"duplicate_open_bounty">>
        /\ bounties = SeedBounties

\* The claim request of slot p is about to run its INSERT for a pull-request
\* event: its sender is registered and not the creator of the bounty, which
\* is open.
ClaimReady(p) ==
    /\ req[p].kind = "claim" /\ req[p].pc = "insert" /\ ~req[p].flag
    /\ req[p].user \in Registered
    /\ \E b \in bounties : /\ b.id = req[p].bounty /\ b.status = "open"
                           /\ b.creator_id # req[p].user

\* C5: a PR-opened event with /claim-bounty B from a registered user U who
\* is not the creator of the open bounty B, with no claim yet for (B, that
\* pull request), creates exactly one claim row (B, U, the PR number) and
\* posts one pending-review comment; the bounty stays open.
C5_ClaimAddsOneRow ==
    [][\A p \in Procs :
         (ClaimReady(p) /\ Moved(p) /\ ~req'[p].nfail
            /\ ClaimsOn(req[p].bounty, req[p].arg) = {}) =>
               /\ \E c \in bounty_claims' :
                     /\ c.bounty_id = req[p].bounty /\ c.user_id = req[p].user
                     /\ c.pull_request = req[p].arg
                     /\ bounty_claims' = bounty_claims \cup {c}
                     /\ c \notin bounty_claims
               /\ req'[p].comments = <<"pending_review">>
               /\ bounties' = bounties
      ]_vars

\* C6: /claim-bounty B processed again for a pull request that already has a
\* claim on the still-open bounty B inserts no second claim row and posts an
\* already-claimed comment; the request does not fail.
C6_DuplicateClaimIsAnswered ==
    [][\A p \in Procs :
         (ClaimReady(p) /\ Moved(p) /\ ~req'[p].nfail
            /\ ClaimsOn(req[p].bounty, req[p].arg) # {}) =>
               /\ bounty_claims' = bounty_claims
               /\ req'[p].comments = <<"already_claimed">>
               /\ req'[p].http = 200
      ]_vars

\* C7: when the creator of an open bounty approves a claimant who holds a
\* claim on it, and both have a payout address, the request passes its
\* checks, the bounty's status becomes payment pending with claimed_by the
\* claimant, nothing else changes, and the response is the triple (creator
\* address, claimant address, bounty amount).
C7_ApproveSetsPaymentPending ==
    [][\A p \in Procs : \A b \in bounties :
         (/\ req[p].kind = "approve" /\ Moved(p)
          /\ b.id = req[p].bounty /\ b.status = "open"
          /\ b.creator_id = req[p].user
          /\ \E c \in bounty_claims : c.bounty_id = b.id /\ c.user_id = req[p].arg
          /\ req[p].user \in HasAddress /\ req[p].arg \in HasAddress) =>
            /\ req[p].pc = "readBounty" =>
                  req'[p].pc = "readClaim" /\ bounties' = bounties
            /\ req[p].pc = "readClaim" =>
                  req'[p].pc = "write" /\ bounties' = bounties
            /\ req[p].pc = "write" =>
                  /\ bounties' = (bounties \ {b}) \cup
                        {[id |-> b.id, issue_id |-> b.issue_id, amount |-> b.amount,
                          status |-> "payment pending", creator_id |-> b.creator_id,
                          claimed_by |-> req[p].arg]}
                  /\ bounty_claims' = bounty_claims
                  /\ req'[p].http = 200
                  /\ req'[p].resp = <<solana_address(b.creator_id),
                                      solana_address(req[p].arg), b.amount>>
      ]_vars

\* Bounty 1 has been approved by its creator 1 for claimant 2 and the
\* response carries both addresses and the amount.
C7_Witness ==
    \E p \in Procs :
        /\ req[p].kind = "approve" /\ req[p].outcome = "approved"
        /\ req[p].resp = <<1001, 1002, 1>>
        /\ \E b \in bounties : /\ b.id = 1 /\ b.status = "payment pending"
                               /\ b.claimed_by = 2 /\ b.amount = 1

\* C8: every change of a bounty's status is open -> payment pending or
\* payment pending -> completed.
C8_StatusMovesForwardOneStep ==
    [][\A b \in bounties : \A c \in bounties' :
         (b.id = c.id /\ b.status # c.status) =>
            \/ b.status = "open" /\ c.status = "payment pending"
            \/ b.status = "payment pending" /\ c.status = "completed"
      ]_vars

\* C9: a delete request removes a bounty only when the requester is its
\* creator and its status is not completed; any other delete leaves the
\* bounty row and its claim rows unchanged.
C9_DeleteOnlyByCreatorBeforeCompletion ==
    [][\A p \in Procs :
         (req[p].kind = "delete" /\ Moved(p)) =>
            \/ bounties' = bounties /\ bounty_claims' = bounty_claims
            \/ \E b \in bounties : /\ b.id = req[p].bounty
                                   /\ b.creator_id = req[p].user
                                   /\ b.status # "completed"
      ]_vars

\* No claim row references a bounty that does not exist.
NoDanglingClaim ==
    \A c \in bounty_claims : \E b \in bounties : b.id = c.bounty_id

\* C10: in every reachable state no claim row references a bounty that does
\* not exist, and every step of a delete request either removes the bounty
\* together with all of its claim rows or changes neither table.
C10_DeleteIsAtomic ==
    [][/\ NoDanglingClaim /\ NoDanglingClaim'
       /\ \A p \in Procs :
            (req[p].kind = "delete" /\ Moved(p)) =>
               \/ bounties' = bounties /\ bounty_claims' = bounty_claims
               \/ /\ bounties' = {b \in bounties : b.id # req[p].bounty}
                  /\ bounty_claims' =
                        {c \in bounty_claims : c.bounty_id # req[p].bounty}
      ]_vars

\* A delete has removed the seeded bounty and its two claims while a claim
\* request that found the bounty open is about to run its INSERT.
C10_Witness ==
    /\ \E p \in Procs : req[p].kind = "delete" /\ req[p].outcome = "deleted"
    /\ \E p \in Procs : req[p].kind = "claim" /\ req[p].pc = "insert"
                           /\ req[p].bounty = 1
    /\ bounties = {} /\ bounty_claims = {} /\ bounties_seq = 1

\* C11: once the deletion of a bounty has committed, one notification call
\* is made for every distinct claimant of the bounty; a call that fails
\* neither stops the calls for the other claimants nor undoes the deletion:
\* the request answers 200 and the bounty and its claims are gone.
C11_DeleteNotifiesEveryClaimant ==
    [][\A p \in Procs :
         (req[p].kind = "delete" /\ req[p].pc = "commit" /\ Moved(p)) =>
            LET claimants ==
                  {c.user_id : c \in {c \in bounty_claims : c.bounty_id = req[p].bounty}}
            IN  /\ claimants \subseteq req[p].snap[1]
                /\ req'[p].calls = Cardinality(req[p].snap[1])
                /\ Len(req'[p].comments) <= req'[p].calls
                /\ ~req'[p].nfail => Len(req'[p].comments) = req'[p].calls
                /\ \A i \in 1..Len(req'[p].comments) :
                      req'[p].comments[i] = "bounty_deleted"
                /\ req'[p].pc = "done" /\ req'[p].http = 200
                /\ \A b \in bounties' : b.id # req[p].bounty
                /\ \A c \in bounty_claims' : c.bounty_id # req[p].bounty
      ]_vars

\* The seeded bounty with its two claimants has been deleted: two calls were
\* made, one failed and the other posted its notice.
C11_Witness ==
    \E p \in Procs :
        /\ req[p].kind = "delete" /\ req[p].outcome = "deleted" /\ req[p].http = 200
        /\ req[p].calls = 2 /\ req[p].nfail
        /\ req[p].comments = <<"bounty_deleted">>
        /\ bounties = {} /\ bounty_claims = {}

\* C12: the webhook endpoint answers every event it has routed to the
\* creation or the claim handler with its success response, whatever the
\* outcome of the handler, of a database call or of a notification call.
C12_WebhookAlwaysAcknowledged ==
    \A p \in Procs :
        (req[p].kind \in {"create", "claim"} /\ req[p].pc = "done") =>
            req[p].http = 200

\* C13: an event whose signature does not match is not processed: no step of
\* its request changes a table or posts a comment, the request ends when
\* verify has settled, and its answer is the success response.
C13_BadSignatureIsNotProcessed ==
    [][\A p \in Procs :
         (req[p].hook.signature # "match" /\ Moved(p)) =>
            /\ bounties' = bounties /\ bounty_claims' = bounty_claims
            /\ req'[p].pc = "done"
            /\ req'[p].http = 200
            /\ req'[p].comments = <<>>
      ]_vars

\* C14: a command that ends in success, in expected contention (duplicate
\* open bounty, duplicate claim, own bounty, no account) or in not-found has
\* posted exactly one comment when no notification call failed; a request
\* that has posted none found no command in its text.
C14_OneCommentPerOutcome ==
    \A p \in Procs :
        (req[p].kind \in {"create", "claim"} /\ req[p].pc = "done" /\ ~req[p].nfail) =>
            /\ req[p].outcome \in {"created", "duplicate", "claimed", "already_claimed",
                                   "own_bounty", "not_registered", "not_found"}
                  => Len(req[p].comments) = 1
            /\ req[p].comments = <<>> => req[p].outcome = "no_command"

\* The text names /create-bounty, in any case, and no occurrence of it is
\* followed by a decimal integer.
NoNumericArgument(text, command) ==
    /\ \E i \in 1..Len(text) : toLowerCase(text[i].word) = command
    /\ \A i \in 1..Len(text) :
          toLowerCase(text[i].word) = command =>
             \/ i = Len(text)
             \/ text[i + 1].digits = NoDigits
             \/ text[i + 1].word # ""

\* C15: an event whose text has /create-bounty with a non-numeric or missing
\* argument creates no bounty and posts no comment, and its request ends
\* with the success response.
C15_NonNumericCreateIsNoCommand ==
    [][\A p \in Procs :
         (/\ req[p].hook.signature = "match"
          /\ NoNumericArgument(req[p].hook.text, CreateCommand)
          /\ Moved(p)) =>
            /\ bounties' = bounties
            /\ req'[p].comments = <<>>
            /\ req'[p].pc = "done" => req'[p].http = 200
      ]_vars

\* C16: every bounty row has a positive amount in every reachable state.
C16_AmountIsPositive ==
    \A b \in bounties : b.amount > 0

\* C17: when the trigger rejects the insert of a create request because a
\* bounty of the issue was committed open after the request's pre-check, the
\* request ends as the pre-check would have ended it: the duplicate notice
\* is posted, no bounty is added, and the answer is the success response.
C17_RejectedInsertIsADuplicate ==
    [][\A p \in Procs :
         (/\ req[p].kind = "create" /\ req[p].pc = "trigger" /\ Moved(p)
          /\ OpenOn(req[p].issue) # {} /\ ~req'[p].nfail) =>
            /\ bounties' = bounties
            /\ req'[p].pc = "done" /\ req'[p].http = 200
            /\ req'[p].comments = <<"duplicate_open_bounty">>
      ]_vars

\* C18: a comment on a pull request that carries /claim-bounty B, from a
\* registered user who is not the creator of the open bounty B, with no
\* claim yet for that pull request, reaches the INSERT and adds the claim row
\* (B, sender, the pull request's number); a comment on a plain issue never
\* adds a claim, and a comment on a pull request never adds a bounty.
C18_CommentOnPullRequestClaims ==
    [][\A p \in Procs :
         /\ (/\ req[p].kind = "claim" /\ req[p].flag /\ Moved(p)
             /\ req[p].user \in Registered
             /\ \E b \in bounties : /\ b.id = req[p].bounty /\ b.status = "open"
                                    /\ b.creator_id # req[p].user
             /\ ClaimsOn(req[p].bounty, req[p].hook.pr) = {}) =>
               /\ req[p].pc = "lookup" => req'[p].pc = "insert"
               /\ req[p].pc = "insert" =>
                     \E c \in bounty_claims' \ bounty_claims :
                         /\ c.bounty_id = req[p].bounty /\ c.user_id = req[p].user
                         /\ c.pull_request = req[p].hook.pr
         /\ (req[p].hook.kind = "issue_comment.created" /\ Moved(p)) =>
               /\ ~req[p].hook.on_pr =>
                     bounty_claims' = bounty_claims /\ req'[p].kind # "claim"
               /\ req[p].hook.on_pr =>
                     bounties' = bounties /\ req'[p].kind # "create"
      ]_vars

\* Every claim row's claimant has a row in users and is not the creator of
\* the claimed bounty.
ClaimantsAreRegisteredNonCreators ==
    \A c \in bounty_claims :
        /\ c.user_id \in Registered
        /\ \A b \in bounties : b.id = c.bounty_id => b.creator_id # c.user_id

\* C19: in every reachable state every claimant is a registered user other
\* than the creator of the claimed bounty; a claim by an unregistered sender
\* or by the creator of the bounty adds no claim row, posts the notice of its
\* case, and ends with the success response.
C19_ClaimantIsRegisteredNonCreator ==
    [][/\ ClaimantsAreRegisteredNonCreators /\ ClaimantsAreRegisteredNonCreators'
       /\ \A p \in Procs :
            /\ (/\ req[p].kind = "webhook" /\ Moved(p)
                /\ req'[p].kind = "claim" /\ req[p].user \notin Registered
                /\ req'[p].outcome # "no_command" /\ ~req'[p].nfail) =>
                  /\ bounty_claims' = bounty_claims
                  /\ req'[p].pc = "done" /\ req'[p].http = 200
                  /\ req'[p].comments = <<"join_first">>
            /\ (/\ req[p].kind = "claim" /\ req[p].pc = "lookup" /\ Moved(p)
                /\ \E b \in bounties : /\ b.id = req[p].bounty /\ b.status = "open"
                                       /\ b.creator_id = req[p].user
                /\ ~req'[p].nfail) =>
                  /\ bounty_claims' = bounty_claims
                  /\ req'[p].pc = "done" /\ req'[p].http = 200
                  /\ req'[p].comments = <<"own_bounty">>
      ]_vars

\* C20: a claim row is only added for a bounty that is open when the INSERT
\* runs; a claim that names a bounty that is unknown or not open, when it is
\* looked up or when the INSERT runs after an approval in between, adds no
\* row and posts the no-open-bounty notice.
C20_ClaimOnlyOnOpenBounty ==
    [][/\ \A c \in bounty_claims' \ bounty_claims :
            \E b \in bounties : b.id = c.bounty_id /\ b.status = "open"
       /\ \A p \in Procs :
            (/\ req[p].kind = "claim" /\ req[p].pc \in {"lookup", "insert"}
             /\ Moved(p) /\ ~req'[p].nfail
             /\ ~\E b \in bounties : b.id = req[p].bounty /\ b.status = "open") =>
               /\ bounty_claims' = bounty_claims
               /\ req'[p].pc = "done"
               /\ req'[p].comments = <<"no_open_bounty">>
      ]_vars

\* The approve request of slot p meets the three conditions: its caller is
\* the creator of the bounty it names, the claimant it names holds a claim
\* on that bounty, and creator and claimant both have a payout address.
ApproveAllowed(p) ==
    /\ \E b \in bounties : /\ b.id = req[p].bounty
                           /\ b.creator_id = req[p].user
    /\ \E c \in bounty_claims : c.bounty_id = req[p].bounty /\ c.user_id = req[p].arg
    /\ req[p].user \in HasAddress /\ req[p].arg \in HasAddress

\* C21: an approve request that does not meet the three conditions never
\* reaches its UPDATE, changes no bounty and no claim, returns no payout
\* instruction, and does not end with the success response.
C21_ApproveOnlyWhenAllowed ==
    [][\A p \in Procs :
         (req[p].kind = "approve" /\ Moved(p) /\ ~ApproveAllowed(p)) =>
            /\ bounties' = bounties /\ bounty_claims' = bounty_claims
            /\ req'[p].pc # "write"
            /\ req'[p].resp = <<>>
            /\ req'[p].pc = "done" => req'[p].http # 200
      ]_vars

\* An approve of the seeded bounty by a user who is not its creator, for a
\* claimant who holds a claim, has ended with 401 and the bounty is as it
\* was.
C21_Witness ==
    \E p \in Procs :
        /\ req[p].kind = "approve" /\ req[p].outcome = "unauthorized"
        /\ req[p].http = 401 /\ req[p].resp = <<>>
        /\ bounties = SeedBounties /\ bounty_claims = SeedClaims

\* C22: amount update, approval and deletion check and write atomically: a
\* request that runs its write and reports success finds the bounty it
\* checked still there, so its mutation is not lost to a delete that took
\* effect after its check.
C22_CheckAndWriteAreAtomic ==
    [][\A p \in Procs :
         (/\ \/ req[p].kind \in {"approve", "update"} /\ req[p].pc = "write"
             \/ req[p].kind = "delete" /\ req[p].pc = "commit"
          /\ Moved(p)
          /\ req'[p].http \in {0, 200}) =>
            \E b \in bounties : b.id = req[p].bounty
      ]_vars

\* C23: an amount update changes nothing, or it changes only the amount of
\* the bounty it names and its caller is that bounty's creator; no claim row
\* changes.
C23_UpdateChangesOnlyTheAmount ==
    [][\A p \in Procs :
         (req[p].kind = "update" /\ Moved(p)) =>
            /\ bounty_claims' = bounty_claims
            /\ \/ bounties' = bounties
               \/ \E b \in bounties :
                     /\ b.id = req[p].bounty /\ b.creator_id = req[p].user
                     /\ bounties' = (bounties \ {b}) \cup
                           {[id |-> b.id, issue_id |-> b.issue_id,
                             amount |-> req[p].amount, status |-> b.status,
                             creator_id |-> b.creator_id, claimed_by |-> b.claimed_by]}
      ]_vars

\* The amount of the seeded bounty has been updated by its creator after it
\* was approved: it is still payment pending, claimed by 2, with its claims.
C23_Witness ==
    /\ \E p \in Procs : req[p].kind = "update" /\ req[p].outcome = "updated"
    /\ bounties = {BountyRow(1, 42, MaxAmount, "payment pending", 1, 2)}
    /\ bounty_claims = SeedClaims

\* C24: after the UPDATE of an amount update, a notice is attempted on the
\* issue and on every pull request with a claim on the bounty, whichever of
\* the calls fail, and the request ends with the success response.
C24_UpdateNotifiesEveryPullRequest ==
    [][\A p \in Procs :
         (req[p].kind = "update" /\ req[p].pc = "notify" /\ Moved(p)) =>
            /\ req'[p].calls =
                  1 + Cardinality({c \in bounty_claims : c.bounty_id = req[p].bounty})
            /\ req'[p].pc = "done" /\ req'[p].http = 200
      ]_vars

\* C25: a comment is recognized as a command under the conditions of the
\* pattern: whenever its text holds the command, in any case and anywhere,
\* followed by whitespace and a decimal integer, the event reaches the
\* creation handler (on an issue) or the claim handler (on a pull request)
\* with that integer.
C25_CommentCommandsAreRecognized ==
    [][\A p \in Procs :
         (/\ req[p].kind = "webhook" /\ Moved(p)
          /\ req[p].hook.kind = "issue_comment.created"
          /\ req[p].hook.signature = "match") =>
            /\ (~req[p].hook.on_pr /\ match(req[p].hook.text, CreateCommand, 1) > 0) =>
                  /\ req'[p].kind = "create"
                  /\ req'[p].amount = match(req[p].hook.text, CreateCommand, 1)
            /\ (req[p].hook.on_pr /\ match(req[p].hook.text, ClaimCommand, 1) > 0) =>
                  req'[p].kind = "claim"
      ]_vars

\* A bounty of the issue has left the open status: it is payment pending or
\* completed, or a bounty has been deleted (an id drawn from the sequence
\* has no row).
LeftOpen(issue) ==
    \/ \E b \in bounties : b.issue_id = issue /\ b.status # "open"
    \/ \E id \in 1..bounties_seq : \A b \in bounties : b.id # id

C27_OnePayoutPerBounty ==
    [][\A p \in Procs :
         (/\ req[p].kind = "approve" /\ req[p].pc = "write" /\ Moved(p)
          /\ \E b \in bounties : b.id = req[p].bounty /\ b.claimed_by # NULL) =>
            /\ req'[p].resp = <<>>
            /\ bounties' = bounties
      ]_vars

\* C28: in every reachable state the claimed_by of a bounty is unset if and
\* only if its status is open.
C28_ClaimedByIffNotOpen ==
    \A b \in bounties : (b.claimed_by = NULL) <=> (b.status = "open")

\* Whenever claimed_by of a bounty is set, the user it names holds a claim
\* on that bounty.
ClaimedByHoldsAClaim ==
    \A b \in bounties : b.claimed_by # NULL =>
        \E c \in bounty_claims : c.bounty_id = b.id /\ c.user_id = b.claimed_by

\* C29: in every reachable state the user named by a bounty's claimed_by
\* holds a claim on that bounty, and a claim row is only removed in the step
\* that removes its bounty; under every interleaving of approve and delete.
C29_ClaimedByHasAClaim ==
    [][/\ ClaimedByHoldsAClaim /\ ClaimedByHoldsAClaim'
       /\ \A c \in bounty_claims \ bounty_claims' :
             /\ \E b \in bounties : b.id = c.bounty_id
             /\ \A b \in bounties' : b.id # c.bounty_id
      ]_vars

\* The seeded bounty has been approved for claimant 2, whose claim is in
\* place, while a delete of that bounty is about to commit.
C29_Witness ==
    /\ \E p \in Procs : req[p].kind = "approve" /\ req[p].outcome = "approved"
    /\ \E p \in Procs : req[p].kind = "delete" /\ req[p].pc = "commit"
                           /\ req[p].bounty = 1
    /\ bounties = {BountyRow(1, 42, 1, "payment pending", 1, 2)}
    /\ bounty_claims = SeedClaims

\* C30: a complete request by an authenticated user who is not the creator
\* of the bounty it names changes no bounty.
C30_CompleteOnlyByCreator ==
    [][\A p \in Procs : \A u \in ApiCallers : \A id \in BountyIds :
         (/\ Complete(p, u, id)
          /\ Authenticated(u)
          /\ \E b \in bounties : b.id = id /\ b.creator_id # u) =>
            bounties' = bounties
      ]_vars

=============================================================================
